---------------------------- MODULE Spec2Model ----------------------------
(***************************************************************************)
(* Model of adversarial_vision_challenge/server.py: the rate limiter       *)
(* (_check_rate_limitation), the /predict handler, the flask <-> python    *)
(* wrapper (_wrap) with its argument binding, the image validation and     *)
(* output normalisation of _predict, and the array codec                   *)
(* (_encode_arrays / _decode_arrays).                                      *)
(*                                                                         *)
(* Python values are records tagged by "kind":                             *)
(*   int, float (a fraction), str, bytes, list, tuple, dict (items: name   *)
(*   -> value), ndarray                                                    *)
(*   (shape, dtype, data: the C-order bytes) and error (a raised           *)
(*   exception, with the phase of the request that raised it).             *)
(***************************************************************************)
EXTENDS Integers, Sequences, FiniteSets, TLC

VARIABLES
    number_of_max_predictions, \* the module global of server.py:24
    budget,                    \* its value at start-up (observation only)
    channel_axis,              \* model.channel_axis(), read once at start-up
    running,                   \* the werkzeug server is serving
    pc,                        \* per handler thread: position in predict()
    loaded,                    \* per thread: value read by "-= 1" before its store
    atStart,                   \* per thread: the counter when its request came in
    received,                  \* POST /predict requests received so far
    passed,                    \* requests that got past _check_rate_limitation
    rejected,                  \* requests refused with TooManyRequests
    afterReject,               \* per thread: current request started after a refusal
    trace,                     \* per thread: phases the current request went through
    bound,                     \* per thread: summary of the value bound to `image`
    modelCall,                \* per thread: what model.predictions got and returned
    response,                  \* per thread: the response of the current request
    d0, d, request, args, stage \* inputs/outputs of the codec and binder runs

vars == << number_of_max_predictions, budget, channel_axis, running, pc,
           loaded, atStart, received,
           passed, rejected, afterReject, trace, bound, modelCall, response,
           d0, d, request, args, stage >>

serverVars == << number_of_max_predictions, budget, channel_axis, running,
                 pc, loaded, atStart,
                 received, passed, rejected, afterReject, trace, bound,
                 modelCall, response >>

pureVars == << d0, d, request, args, stage >>

(***************************************************************************)
(* Bounds of the model.                                                    *)
(***************************************************************************)
MaxNumOfImages == 1   \* NUM_OF_IMAGES is drawn from 0..MaxNumOfImages
MaxExtra == 3         \* requests sent beyond the configured budget
MaxRemaining == 2     \* budget left when concurrent handling starts
Workers == 2          \* handler threads of the threaded server
MaxElems == 3         \* codec runs: arrays of at most this many elements
MaxRank == 2          \* codec runs: arrays of at most this many axes

(***************************************************************************)
(* Python values.                                                          *)
(***************************************************************************)
None == [kind |-> "None"]
PyInt(n) == [kind |-> "int", v |-> n]
PyFloat(num, den) == [kind |-> "float", num |-> num, den |-> den]  \* num / den, den > 0
PyStr(s) == [kind |-> "str", s |-> s]
PyBytes(b) == [kind |-> "bytes", data |-> b]
PyList(s) == [kind |-> "list", elems |-> s]
PyTuple(s) == [kind |-> "tuple", elems |-> s]
PyDict(f) == [kind |-> "dict", items |-> f]
PyError(name, phase) == [kind |-> "error", name |-> name, phase |-> phase]

IsError(v) == v.kind = "error"
IsNdArray(v) == v.kind = "ndarray"

RECURSIVE Product(_)
Product(s) == IF s = << >> THEN 1 ELSE Head(s) * Product(Tail(s))

(***************************************************************************)
(* numpy dtypes.  A dtype is its kind character, byte order and item size; *)
(* dtype.str is byteorder + kind + itemsize, np.dtype(s) accepts the       *)
(* array-protocol strings and the type names.                              *)
(***************************************************************************)
DType(k, bo, n) == [kind |-> k, byteorder |-> bo, itemsize |-> n]
uint8 == DType("u", "|", 1)
int16 == DType("i", "<", 2)
int16be == DType("i", ">", 2)
float32 == DType("f", "<", 4)

Digits(n) == CASE n = 1 -> "1" [] n = 2 -> "2" [] n = 4 -> "4" [] n = 8 -> "8"

DTypeStr(dt) == dt.byteorder \o dt.kind \o Digits(dt.itemsize)

DTypeNames ==
    [s \in {"|u1", "<u1", "u1", "uint8", "B", "<i2", "i2", "int16", ">i2",
            "<f4", "f4", "float32"} |->
        CASE s \in {"|u1", "<u1", "u1", "uint8", "B"} -> uint8
          [] s \in {"<i2", "i2", "int16"} -> int16
          [] s = ">i2" -> int16be
          [] OTHER -> float32]

\* np.dtype(v): TypeError("data type not understood") for anything else
np_dtype(v) ==
    IF v.kind = "str" /\ v.s \in DOMAIN DTypeNames
    THEN DTypeNames[v.s]
    ELSE PyError("TypeError", "decode")

NdArray(shape, dtype, data) ==
    [kind |-> "ndarray", shape |-> shape, dtype |-> dtype, data |-> data]

Size(a) == Product(a.shape)

\* np.frombuffer(data, dtype=dtype): a 1-d view over a bytes object
frombuffer(data, dtype) ==
    LET dt == np_dtype(dtype) IN
    IF IsError(dt) THEN dt
    ELSE IF data.kind # "bytes" THEN PyError("TypeError", "decode")
    ELSE IF Len(data.data) % dt.itemsize # 0 THEN PyError("ValueError", "decode")
    ELSE NdArray(<< Len(data.data) \div dt.itemsize >>, dt, data.data)

\* ndarray.reshape(shape): shape is a list or tuple of ints, at most one -1
reshape(a, shape) ==
    IF shape.kind \notin {"list", "tuple"} THEN PyError("TypeError", "decode")
    ELSE LET s == shape.elems
             unknown == {i \in DOMAIN s : s[i] = -1}
             known == Product([i \in DOMAIN s |-> IF s[i] = -1 THEN 1 ELSE s[i]])
         IN  IF \E i \in DOMAIN s : s[i] < -1 THEN PyError("ValueError", "decode")
             ELSE IF unknown = {}
             THEN IF known = Size(a) THEN NdArray(s, a.dtype, a.data)
                  ELSE PyError("ValueError", "decode")
             ELSE IF Cardinality(unknown) > 1 \/ known = 0
                     \/ Size(a) % known # 0
             THEN PyError("ValueError", "decode")
             ELSE NdArray([i \in DOMAIN s |->
                              IF s[i] = -1 THEN Size(a) \div known ELSE s[i]],
                          a.dtype, a.data)

(***************************************************************************)
(* The array codec.                                                        *)
(***************************************************************************)
\* a codec that writes the dtype without its byte order
EncodeValueNativeOrder(v) ==
    IF IsNdArray(v)
    THEN PyDict([k \in {"type", "shape", "dtype", "data"} |->
            CASE k = "type" -> PyStr("array")
              [] k = "shape" -> PyTuple(v.shape)
              [] k = "dtype" -> PyStr(v.dtype.kind \o Digits(v.dtype.itemsize))
              [] OTHER -> PyBytes(v.data)])
    ELSE v

EncodeValue(v) ==
    IF IsNdArray(v)
    THEN PyDict([k \in {"type", "shape", "dtype", "data"} |->
            CASE k = "type" -> PyStr("array")
              [] k = "shape" -> PyTuple(v.shape)
              [] k = "dtype" -> PyStr(DTypeStr(v.dtype))
              [] OTHER -> PyBytes(v.data)])
    ELSE v

\* d is a dict; every ndarray value is replaced by its descriptor
_encode_arrays(m) ==
    PyDict([key \in DOMAIN m.items |-> EncodeValue(m.items[key])])

\* hasattr(d[key], 'get') and d[key].get('type') == 'array'
IsTagged(v) ==
    /\ v.kind = "dict"
    /\ "type" \in DOMAIN v.items
    /\ v.items["type"] = PyStr("array")

DecodeValue(v) ==
    IF ~IsTagged(v) THEN v
    ELSE IF ~({"shape", "dtype", "data"} \subseteq DOMAIN v.items)
    THEN PyError("KeyError", "decode")
    ELSE LET flat == frombuffer(v.items["data"], v.items["dtype"])
         IN  IF IsError(flat) THEN flat ELSE reshape(flat, v.items["shape"])

\* the first exception raised in the loop leaves the function
_decode_arrays(m) ==
    LET bad == {key \in DOMAIN m.items : IsError(DecodeValue(m.items[key]))}
    IN  IF bad # {}
        THEN DecodeValue(m.items[CHOOSE key \in bad : TRUE])
        ELSE PyDict([key \in DOMAIN m.items |-> DecodeValue(m.items[key])])

(***************************************************************************)
(* Requests.  request.data is a BSON document (kind "bson", doc: the dict  *)
(* bson.loads returns) or bytes that are no document; request.args is a    *)
(* MultiDict (name -> list of values, items() yields the first of each);   *)
(* request.form maps names to strings, request.files to file contents.     *)
(***************************************************************************)
Bson(doc) == [kind |-> "bson", doc |-> doc]

Request(ct, data, query, form, files) ==
    [content_type |-> ct, data |-> data, args |-> query, form |-> form,
     files |-> files]

\* str.lower() on the content types the model sends
Lower(s) == IF s = "Application/BSON" THEN "application/bson" ELSE s

bson_loads(data) ==
    IF data.kind = "bson" THEN data.doc ELSE PyError("BSONError", "decode")

MultiDictItems(md) == [name \in DOMAIN md |-> md[name][1]]

\* inspect.signature(_predict).parameters
Params == {"image"}

(***************************************************************************)
(* _wrap.wrapper: the binding of the arguments.                            *)
(***************************************************************************)
\* a binder in which a later source overwrites an earlier one
add_argument_last_wins(a, name, value) ==
    IF name \notin Params THEN a
    ELSE (name :> value) @@ a

add_argument(a, name, value) ==
    IF name \in DOMAIN a THEN a
    ELSE IF name \notin Params THEN a
    ELSE a @@ (name :> value)

\* for name, value in source.items(): add_argument(name, value)
RECURSIVE AddItems(_, _)
AddItems(a, source) ==
    IF DOMAIN source = {} THEN a
    ELSE LET name == CHOOSE name \in DOMAIN source : TRUE
         IN  AddItems(add_argument(a, name, source[name]),
                      [k \in DOMAIN source \ {name} |-> source[k]])

\* value.read() of the files whose name is a parameter; no parameter of
\* _predict is annotated Image.Image, so the bytes are bound as they are
FileItems(files) == [name \in DOMAIN files \cap Params |-> files[name]]

BsonArgs(req) ==
    IF Lower(req.content_type) = "application/bson"
    THEN LET doc == bson_loads(req.data)
         IN  IF IsError(doc) THEN doc ELSE _decode_arrays(doc)
    ELSE PyDict(<< >>)

BindArguments(req) ==
    LET bson_args == BsonArgs(req)
    IN  IF IsError(bson_args) THEN bson_args
        ELSE PyDict(AddItems(AddItems(AddItems(AddItems(<< >>,
                        bson_args.items),
                        MultiDictItems(req.args)),
                        req.form),
                        FileItems(req.files)))

(***************************************************************************)
(* model_server._predict: validation of the image, the model's call and    *)
(* the normalisation of what it returns.                                   *)
(***************************************************************************)
ImageShape == << 64, 64, 3 >>
NumClasses == 200
DEFAULT_BOUNDS == << 0, 255 >>

\* the elements of an integer array of 1- or 2-byte items, in C order
Elements(a) ==
    LET n == a.dtype.itemsize
        byte(i, k) == a.data[n * (i - 1) + k]
        word(i) == IF a.dtype.byteorder = ">"
                   THEN 256 * byte(i, 1) + byte(i, 2)
                   ELSE byte(i, 1) + 256 * byte(i, 2)
    IN  [i \in 1..(Len(a.data) \div n) |->
            IF n = 1 THEN byte(i, 1)
            ELSE IF a.dtype.kind = "i" /\ word(i) >= 32768
            THEN word(i) - 65536
            ELSE word(i)]

\* index, from 1, of the first occurrence of the maximum of a sequence
FirstMax(e) ==
    CHOOSE i \in 1..Len(e) :
        /\ \A j \in 1..Len(e) : e[j] <= e[i]
        /\ \A j \in 1..(i - 1) : e[j] < e[i]

\* np.argmax: index, from 0, of the first occurrence of the maximum
argmax(a) == FirstMax(Elements(a)) - 1

\* image.astype(np.float32), transposed to channels-first when channel_axis is 1
ModelImage(image, axis) ==
    [kind |-> "ndarray",
     shape |-> IF axis = 1
               THEN << image.shape[3], image.shape[1], image.shape[2] >>
               ELSE image.shape,
     dtype |-> float32]

\* a validation that forgets the element type
ValidImageAnyDtype(image) ==
    /\ IsNdArray(image)
    /\ image.shape = << 64, 64, 3 >>

\* the three assertions on the image
ValidImage(image) ==
    /\ IsNdArray(image)
    /\ image.shape = ImageShape
    /\ image.dtype = uint8

\* int(x) of a scalar or of an array of one element: a float loses its
\* fraction (towards zero)
int(x) ==
    IF IsNdArray(x) THEN Elements(x)[1]
    ELSE IF x.kind = "float"
    THEN IF x.num >= 0 THEN x.num \div x.den ELSE -((-x.num) \div x.den)
    ELSE x.v

\* lines 71-74: the class of a vector of scores, or int() of what was returned
Prediction(out) ==
    IF IsNdArray(out) /\ Size(out) > 1
    THEN IF Size(out) # NumClasses THEN PyError("AssertionError", "normalize")
         ELSE PyInt(int(PyInt(argmax(out))))
    ELSE PyInt(int(out))

\* a normalisation that forgets the bounds
NormalizeUnchecked(out) == Prediction(out)

\* prediction = model.predictions(image) onwards; `out` is what the model returned
Normalize(out) ==
    LET p == Prediction(out)
    IN  IF IsError(p) THEN p
        ELSE IF DEFAULT_BOUNDS[1] <= p.v /\ p.v < DEFAULT_BOUNDS[2] THEN p
        ELSE PyError("AssertionError", "normalize")

\* result of the call: the trace of phases entered, what the model got and
\* returned (None when it was not called) and the value returned or raised
_predict(image, out, axis) ==
    IF ~ValidImage(image)
    THEN [trace |-> << "validate" >>, modelCall |-> None,
          result |-> PyError("AssertionError", "validate")]
    ELSE [trace |-> << "validate", "model", "normalize" >>,
          modelCall |-> [kind |-> "call",
                         image |-> ModelImage(image, axis),
                         returned |-> out],
          result |-> Normalize(out)]

(***************************************************************************)
(* _wrap.wrapper as a whole, and the responses flask makes of what the     *)
(* handlers return or raise.                                               *)
(***************************************************************************)
Response(route, status, body) ==
    [route |-> route, status |-> status, error |-> "", phase |-> "",
     body |-> body]

\* TooManyRequests is an HTTPException (429); anything else raised is a 500
Failure(route, e) ==
    [route |-> route,
     status |-> IF e.name = "TooManyRequests" THEN 429 ELSE 500,
     error |-> e.name, phase |-> e.phase, body |-> None]

Summary(v) ==
    IF IsNdArray(v)
    THEN [kind |-> "ndarray", shape |-> v.shape, dtype |-> v.dtype]
    ELSE [kind |-> v.kind]

wrapper(req, out, axis) ==
    LET bound_args == BindArguments(req)
    IN  IF IsError(bound_args)
        THEN [trace |-> << "decode" >>, bound |-> None, modelCall |-> None,
              response |-> Failure("/predict", bound_args)]
        ELSE IF DOMAIN bound_args.items # Params
        THEN [trace |-> << "decode", "bind", "call" >>, bound |-> None,
              modelCall |-> None,
              response |-> Failure("/predict", PyError("TypeError", "call"))]
        ELSE LET call == _predict(bound_args.items["image"], out, axis)
                 head == << "decode", "bind", "call" >> \o call.trace
                 image == Summary(bound_args.items["image"])
             IN  IF IsError(call.result)
                 THEN [trace |-> head, bound |-> image,
                       modelCall |-> call.modelCall,
                       response |-> Failure("/predict", call.result)]
                 ELSE [trace |-> head \o << "encode" >>, bound |-> image,
                       modelCall |-> call.modelCall,
                       response |->
                           Response("/predict", 200,
                               Bson(_encode_arrays(
                                   PyDict("prediction" :> call.result))))]

(***************************************************************************)
(* Codec runs: a result mapping is encoded, then decoded again.            *)
(***************************************************************************)
ByteVals == {0, 255}

Shapes ==
    {s \in UNION {[1..n -> 1..MaxElems] : n \in 0..MaxRank} :
        Product(s) <= MaxElems}

Arrays ==
    UNION {{NdArray(s, dt, b) : b \in [1..(Product(s) * dt.itemsize) -> ByteVals]} :
              s \in Shapes, dt \in {uint8, int16, int16be}}

NonArrays ==
    {None, PyInt(42), PyStr("array"), PyBytes(<< 0, 255 >>),
     PyList(<< 1, 2 >>), PyDict("type" :> PyStr("image")),
     PyDict([k \in {"type", "shape", "dtype", "data"} |->
        CASE k = "type" -> PyStr("array")
          [] k = "shape" -> PyList(<< 2 >>)
          [] k = "dtype" -> PyStr("uint8")
          [] OTHER -> PyBytes(<< 0, 255 >>)]),
     PyDict(("type" :> PyStr("array")) @@ ("shape" :> PyList(<< 2 >>)))}

CodecInputs ==
    {PyDict("prediction" :> v) : v \in Arrays \cup NonArrays}
    \cup {PyDict(("prediction" :> v) @@ ("extra" :> w)) :
            v \in Arrays, w \in NonArrays}

IdleServer ==
    /\ number_of_max_predictions = 0
    /\ budget = 0
    /\ channel_axis = 3
    /\ running = FALSE
    /\ pc = << >>
    /\ loaded = << >>
    /\ atStart = << >>
    /\ received = 0
    /\ passed = 0
    /\ rejected = 0
    /\ afterReject = << >>
    /\ trace = << >>
    /\ bound = << >>
    /\ modelCall = << >>
    /\ response = << >>

InitCodec ==
    /\ IdleServer
    /\ d0 \in CodecInputs
    /\ d = d0
    /\ stage = "input"
    /\ request = None
    /\ args = None

Encode ==
    /\ stage = "input"
    /\ d' = _encode_arrays(d)
    /\ stage' = "encoded"
    /\ UNCHANGED << serverVars, d0, request, args >>

Decode ==
    /\ stage = "encoded"
    /\ d' = _decode_arrays(d)
    /\ stage' = "decoded"
    /\ UNCHANGED << serverVars, d0, request, args >>

NextCodec == Encode \/ Decode

SpecCodec == InitCodec /\ [][NextCodec]_vars

\* an array comes back with its shape, its dtype string and its bytes
SameArray(a, b) ==
    /\ IsNdArray(b)
    /\ b.shape = a.shape
    /\ DTypeStr(b.dtype) = DTypeStr(a.dtype)
    /\ b.data = a.data

SmallArray == NdArray(<< 2 >>, uint8, << 0, 255 >>)

\* a descriptor whose buffer does not fill its shape
BrokenArray ==
    PyDict([k \in {"type", "shape", "dtype", "data"} |->
        CASE k = "type" -> PyStr("array")
          [] k = "shape" -> PyList(<< 2 >>)
          [] k = "dtype" -> PyStr("|u1")
          [] OTHER -> PyBytes(<< 0, 255, 0 >>)])

BodyValues == {EncodeValue(SmallArray), PyStr("from-body"), BrokenArray}

\* the restrictions of a mapping to the subsets of its names
SubMaps(f) == {[n \in sub |-> f[n]] : sub \in SUBSET DOMAIN f}

BodyDocs ==
    {PyDict(m) : m \in UNION {SubMaps(("image" :> v) @@ ("extra" :> PyInt(7))) :
                                v \in BodyValues}}

QueryArgs ==
    UNION {SubMaps(("image" :> q) @@ ("verbose" :> << PyStr("1") >>)) :
              q \in {<< PyStr("from-query") >>,
                     << PyStr("from-query"), PyStr("second") >>}}

FormFields ==
    SubMaps(("image" :> PyStr("from-form")) @@ ("extra" :> PyStr("x")))

FileParts ==
    SubMaps(("image" :> PyBytes(<< 255 >>)) @@ ("extra" :> PyBytes(<< 0 >>)))

BindRequests ==
    {Request(ct, Bson(doc), q, f, u) :
        ct \in {"application/bson", "Application/BSON", "application/json", ""},
        doc \in BodyDocs, q \in QueryArgs, f \in FormFields, u \in FileParts}

InitBind ==
    /\ IdleServer
    /\ request \in BindRequests
    /\ args = None
    /\ stage = "request"
    /\ d0 = None
    /\ d = None

Bind ==
    /\ stage = "request"
    /\ args' = BindArguments(request)
    /\ stage' = "bound"
    /\ UNCHANGED << serverVars, d0, d, request >>

NextBind == Bind

SpecBind == InitBind /\ [][NextBind]_vars

\* the body as a source: the decoded document under the BSON content type
BodySource(req) ==
    IF Lower(req.content_type) = "application/bson"
    THEN _decode_arrays(req.data.doc)
    ELSE PyDict(<< >>)

\* the sources of a request in their order of precedence
Sources(req) ==
    << BodySource(req).items,
       [n \in DOMAIN req.args |-> req.args[n][1]],
       req.form,
       req.files >>

\* C7: every parameter name is bound to the value of the first source, in the
\* order body, query, form, files, that holds the name (the body's value as
\* decoded by _decode_arrays), and to nothing when no source holds it; nothing
\* is bound when the body cannot be decoded.
FirstMatchWins ==
    stage = "bound" =>
        IF IsError(BodySource(request)) THEN IsError(args)
        ELSE /\ args.kind = "dict"
             /\ DOMAIN args.items \subseteq Params
             /\ \A n \in Params :
                   LET src == Sources(request)
                       holding == {i \in 1..4 : n \in DOMAIN src[i]}
                   IN  IF holding = {} THEN n \notin DOMAIN args.items
                       ELSE /\ n \in DOMAIN args.items
                            /\ \E i \in holding :
                                 /\ \A j \in holding : i <= j
                                 /\ args.items[n] = src[i][n]

FirstMatchWitness ==
    /\ stage = "bound"
    /\ request.content_type = "application/bson"
    /\ "image" \in DOMAIN request.data.doc.items
    /\ IsTagged(request.data.doc.items["image"])
    /\ "image" \in DOMAIN request.args
    /\ "image" \in DOMAIN request.form
    /\ "image" \in DOMAIN request.files
    /\ args.items["image"] = SmallArray


(***************************************************************************)
(* The requests sent to /predict and what the model may return.            *)
(***************************************************************************)
Zeros(n) == [i \in 1..n |-> 0]

Descriptor(shape, dtype, nbytes) ==
    PyDict([k \in {"type", "shape", "dtype", "data"} |->
        CASE k = "type" -> PyStr("array")
          [] k = "shape" -> PyList(shape)
          [] k = "dtype" -> PyStr(dtype)
          [] OTHER -> PyBytes(Zeros(nbytes))])

GoodImage == Descriptor(<< 64, 64, 3 >>, "|u1", 64 * 64 * 3)

NoItems == << >>

BsonRequest(doc) ==
    Request("application/bson", Bson(PyDict(doc)), NoItems, NoItems, NoItems)

PredictRequests ==
    { BsonRequest("image" :> GoodImage),
      BsonRequest(("image" :> GoodImage) @@ ("extra" :> PyInt(1))),
      BsonRequest("image" :> Descriptor(<< 64, -1, 3 >>, "uint8", 64 * 64 * 3)),
      BsonRequest("image" :> Descriptor(<< 32, 32, 3 >>, "|u1", 32 * 32 * 3)),
      BsonRequest("image" :> Descriptor(<< 3, 64, 64 >>, "|u1", 64 * 64 * 3)),
      BsonRequest("image" :> Descriptor(<< 64, 64, 3 >>, "<i2", 2 * 64 * 64 * 3)),
      BsonRequest("image" :> Descriptor(<< 64, 64, 3 >>, "|u1", 32 * 32 * 3)),
      BsonRequest("image" :> Descriptor(<< 64, 64, 3 >>, "<i2", 64 * 64 * 3 + 1)),
      BsonRequest("image" :> Descriptor(<< 64, 64, 3 >>, "pixel", 64 * 64 * 3)),
      BsonRequest("image" :> PyDict("type" :> PyStr("array"))),
      BsonRequest(("image" :> GoodImage)
                  @@ ("extra" :> Descriptor(<< 2 >>, "|u1", 3))),
      BsonRequest("image" :> PyStr("image.png")),
      BsonRequest("picture" :> GoodImage),
      Request("Application/BSON", Bson(PyDict("image" :> GoodImage)),
              "image" :> << PyStr("from-query") >>, NoItems, NoItems),
      Request("application/bson", PyBytes(<< 0, 255 >>), NoItems, NoItems,
              NoItems),
      Request("application/json", Bson(PyDict("image" :> GoodImage)), NoItems,
              NoItems, NoItems),
      Request("", PyBytes(<< >>), "image" :> << PyStr("from-query") >>,
              NoItems, NoItems),
      Request("", PyBytes(<< >>), "verbose" :> << PyStr("1") >>,
              "image" :> PyStr("from-form"), NoItems),
      Request("", PyBytes(<< >>), NoItems, NoItems,
              "image" :> PyBytes(<< 137, 80, 78, 71 >>)) }

Scores(n, top) ==
    NdArray(<< n >>, uint8, [i \in 1..n |-> IF i - 1 \in top THEN 255 ELSE 0])

ModelOutputs ==
    { PyInt(-1), PyInt(0), PyInt(42), PyInt(254), PyInt(255),
      PyFloat(85, 2), PyFloat(-1, 2), PyFloat(-3, 2), PyFloat(2549, 10),
      PyFloat(511, 2),
      Scores(200, {57, 120}), Scores(200, {}), Scores(200, {199}),
      Scores(3, {1}), Scores(201, {200}), Scores(1, {}), Scores(1, {0}),
      NdArray(<< 2, 100 >>, int16,
              [i \in 1..400 |-> IF i \in {301, 302} THEN 0 ELSE 255]) }


(***************************************************************************)
(* The server.  A handler thread is idle or inside predict(); the          *)
(* statement "number_of_max_predictions -= 1" is a read of the global, a   *)
(* write of the value read less one, and the comparison reads it again.    *)
(***************************************************************************)
PredictionsPerImage == 1000

\* what _predict(request) can do, per channel axis of the model: one outcome
\* for every request and every value the model may return
Outcomes ==
    [axis \in {1, 3} |->
        {wrapper(req, out, axis) : req \in PredictRequests, out \in ModelOutputs}]

Budgets == {n * PredictionsPerImage : n \in 0..MaxNumOfImages}

Fresh(threads) ==
    /\ channel_axis \in {1, 3}
    /\ running = TRUE
    /\ pc = [t \in threads |-> "idle"]
    /\ loaded = [t \in threads |-> 0]
    /\ atStart = [t \in threads |-> 0]
    /\ rejected = 0
    /\ afterReject = [t \in threads |-> FALSE]
    /\ trace = [t \in threads |-> << >>]
    /\ bound = [t \in threads |-> None]
    /\ modelCall = [t \in threads |-> None]
    /\ response = [t \in threads |-> None]
    /\ d0 = None
    /\ d = None
    /\ request = None
    /\ args = None
    /\ stage = "serving"

\* start-up: requests are handled one at a time
Init ==
    /\ budget \in Budgets
    /\ number_of_max_predictions = budget
    /\ received = 0
    /\ passed = 0
    /\ Fresh({1})

\* the threaded server, from the moment all but at most MaxRemaining
\* predictions of the budget have been served one after the other
InitConc ==
    /\ budget \in Budgets
    /\ number_of_max_predictions \in 0..MaxRemaining
    /\ number_of_max_predictions <= budget
    /\ received = budget - number_of_max_predictions
    /\ passed = received
    /\ Fresh(1..Workers)

Idle(t) == pc[t] = "idle" /\ running

\* a request other than /predict answered by thread t
Answer(t, r) ==
    /\ response' = [response EXCEPT ![t] = r]
    /\ trace' = [trace EXCEPT ![t] = << >>]
    /\ bound' = [bound EXCEPT ![t] = None]
    /\ modelCall' = [modelCall EXCEPT ![t] = None]
    /\ UNCHANGED << number_of_max_predictions, budget, channel_axis, pc,
                    loaded, atStart, received, passed, rejected, afterReject,
                    pureVars >>

main(t) ==
    /\ Idle(t)
    /\ Answer(t, Response("/", 200,
           PyStr("NIPS 2018 Adversarial Vision Challenge Model Server\n")))
    /\ UNCHANGED running

server_version(t) ==
    /\ Idle(t)
    /\ Answer(t, Response("/server_version", 200, PyStr("__version__")))
    /\ UNCHANGED running

\* _shutdown_server: the werkzeug hook stops the server, its absence is an error
shutdown(t) ==
    /\ Idle(t)
    /\ \E hook \in BOOLEAN :
         IF hook
         THEN /\ running' = FALSE
              /\ Answer(t, Response("/shutdown", 200, PyStr("Shutting down ...")))
         ELSE /\ UNCHANGED running
              /\ Answer(t, Failure("/shutdown", PyError("RuntimeError", "shutdown")))

\* a handler that calls _predict without the rate check
predictUnchecked(t) ==
    /\ Idle(t)
    /\ received < budget + MaxExtra
    /\ received' = received + 1
    /\ pc' = [pc EXCEPT ![t] = "call"]
    /\ atStart' = [atStart EXCEPT ![t] = number_of_max_predictions]
    /\ afterReject' = [afterReject EXCEPT ![t] = rejected > 0]
    /\ trace' = [trace EXCEPT ![t] = << >>]
    /\ bound' = [bound EXCEPT ![t] = None]
    /\ modelCall' = [modelCall EXCEPT ![t] = None]
    /\ response' = [response EXCEPT ![t] = None]
    /\ UNCHANGED << number_of_max_predictions, budget, channel_axis, running,
                    loaded, passed, rejected, pureVars >>

\* POST /predict reaches predict()
predict(t) ==
    /\ Idle(t)
    /\ received < budget + MaxExtra
    /\ received' = received + 1
    /\ pc' = [pc EXCEPT ![t] = "read"]
    /\ atStart' = [atStart EXCEPT ![t] = number_of_max_predictions]
    /\ afterReject' = [afterReject EXCEPT ![t] = rejected > 0]
    /\ trace' = [trace EXCEPT ![t] = << >>]
    /\ bound' = [bound EXCEPT ![t] = None]
    /\ modelCall' = [modelCall EXCEPT ![t] = None]
    /\ response' = [response EXCEPT ![t] = None]
    /\ UNCHANGED << number_of_max_predictions, budget, channel_axis, running,
                    loaded, passed, rejected, pureVars >>

\* _check_rate_limitation, line 113: the read of the global
ReadCounter(t) ==
    /\ pc[t] = "read"
    /\ loaded' = [loaded EXCEPT ![t] = number_of_max_predictions]
    /\ pc' = [pc EXCEPT ![t] = "write"]
    /\ UNCHANGED << number_of_max_predictions, budget, channel_axis, running,
                    atStart, received, passed, rejected, afterReject, trace,
                    bound, modelCall, response, pureVars >>

\* a limiter whose counter stops at -1
WriteCounterFloor(t) ==
    /\ pc[t] = "write"
    /\ number_of_max_predictions' = IF loaded[t] < 0 THEN -1 ELSE loaded[t] - 1
    /\ loaded' = [loaded EXCEPT ![t] = 0]
    /\ trace' = [trace EXCEPT ![t] = Append(@, "consume")]
    /\ pc' = [pc EXCEPT ![t] = "check"]
    /\ UNCHANGED << budget, channel_axis, running, atStart, received, passed,
                    rejected, afterReject, bound, modelCall, response,
                    pureVars >>

\* _check_rate_limitation, line 113: the write of the value read less one
WriteCounter(t) ==
    /\ pc[t] = "write"
    /\ number_of_max_predictions' = loaded[t] - 1
    /\ loaded' = [loaded EXCEPT ![t] = 0]
    /\ trace' = [trace EXCEPT ![t] = Append(@, "consume")]
    /\ pc' = [pc EXCEPT ![t] = "check"]
    /\ UNCHANGED << budget, channel_axis, running, atStart, received, passed,
                    rejected, afterReject, bound, modelCall, response,
                    pureVars >>

\* a limiter that refuses one request too early
CheckCounterOffByOne(t) ==
    /\ pc[t] = "check"
    /\ IF number_of_max_predictions <= 0
       THEN /\ response' = [response EXCEPT ![t] =
                   Failure("/predict", PyError("TooManyRequests", "rate"))]
            /\ rejected' = rejected + 1
            /\ pc' = [pc EXCEPT ![t] = "idle"]
            /\ UNCHANGED passed
       ELSE /\ passed' = passed + 1
            /\ pc' = [pc EXCEPT ![t] = "call"]
            /\ UNCHANGED << response, rejected >>
    /\ UNCHANGED << number_of_max_predictions, budget, channel_axis, running,
                    loaded, atStart, received, afterReject, trace, bound,
                    modelCall, pureVars >>

\* _check_rate_limitation, lines 114-119: raise TooManyRequests when negative
CheckCounter(t) ==
    /\ pc[t] = "check"
    /\ IF number_of_max_predictions < 0
       THEN /\ response' = [response EXCEPT ![t] =
                   Failure("/predict", PyError("TooManyRequests", "rate"))]
            /\ rejected' = rejected + 1
            /\ pc' = [pc EXCEPT ![t] = "idle"]
            /\ UNCHANGED passed
       ELSE /\ passed' = passed + 1
            /\ pc' = [pc EXCEPT ![t] = "call"]
            /\ UNCHANGED << response, rejected >>
    /\ UNCHANGED << number_of_max_predictions, budget, channel_axis, running,
                    loaded, atStart, received, afterReject, trace, bound,
                    modelCall, pureVars >>

\* predict(), lines 94-98: _predict(request), the wrapped function
CallPredict(t) ==
    /\ pc[t] = "call"
    /\ \E r \in Outcomes[channel_axis] :
         /\ trace' = [trace EXCEPT ![t] = @ \o r.trace]
         /\ bound' = [bound EXCEPT ![t] = r.bound]
         /\ modelCall' = [modelCall EXCEPT ![t] = r.modelCall]
         /\ response' = [response EXCEPT ![t] = r.response]
    /\ pc' = [pc EXCEPT ![t] = "idle"]
    /\ UNCHANGED << number_of_max_predictions, budget, channel_axis, running,
                    loaded, atStart, received, passed, rejected, afterReject,
                    pureVars >>

Handle(t) ==
    \/ main(t)
    \/ server_version(t)
    \/ shutdown(t)
    \/ predict(t)
    \/ ReadCounter(t)
    \/ WriteCounter(t)
    \/ CheckCounter(t)
    \/ CallPredict(t)

Next == Handle(1)

Spec == Init /\ [][Next]_vars

NextConc == \E t \in 1..Workers : Handle(t)

SpecConc == InitConc /\ [][NextConc]_vars


(***************************************************************************)
(* Properties of the server.                                               *)
(***************************************************************************)
\* thread t has answered a POST /predict and taken no request since
Done(t) ==
    /\ pc[t] = "idle"
    /\ response[t] # None
    /\ response[t].route = "/predict"

\* ... and the answer was 429 Too Many Requests
Refused(t) == Done(t) /\ response[t].status = 429

Min(a, b) == IF a <= b THEN a ELSE b

\* C1: however the threads handling POST /predict interleave, no more
\* requests pass the rate check than the configured budget.
BudgetRespected == passed <= budget

\* C2: with requests handled one at a time, call k passes the rate check when
\* k <= budget and is refused when k > budget: a call is refused exactly when
\* the counter is negative after its decrement.
FirstBudgetCallsPass ==
    \A t \in DOMAIN pc :
        /\ (pc[t] = "call" \/ (Done(t) /\ response[t].status # 429)) =>
              /\ received <= budget
              /\ number_of_max_predictions >= 0
        /\ Refused(t) =>
              /\ received > budget
              /\ number_of_max_predictions < 0
        /\ pc[t] = "idle" =>
              /\ passed = Min(received, budget)
              /\ rejected = received - passed

FirstBudgetCallsPassWitness ==
    /\ budget = PredictionsPerImage
    /\ received = budget + 1
    /\ passed = budget
    /\ Refused(1)

\* C3: no step of any execution raises the counter.
NeverReplenished ==
    [][number_of_max_predictions' <= number_of_max_predictions]_vars

\* C4: once a request has been refused, every request that starts afterwards
\* is refused too, and the model is not called for a refused request.
ExhaustedStaysExhausted ==
    \A t \in DOMAIN pc :
        /\ afterReject[t] => pc[t] # "call"
        /\ (afterReject[t] /\ Done(t)) => response[t].status = 429
        /\ Refused(t) => modelCall[t] = None

\* C5: a POST /predict consumes exactly once and before anything else it
\* does, so a request that fails while decoding, binding or validating has
\* still taken 1 from the counter, and with requests handled one at a time
\* the counter is the budget less the number of requests received.
ConsumeFirst ==
    \A t \in DOMAIN pc :
        /\ trace[t] # << >> =>
              /\ trace[t][1] = "consume"
              /\ \A i \in 2..Len(trace[t]) : trace[t][i] # "consume"
        /\ pc[t] \in {"check", "call"} => trace[t] = << "consume" >>
        /\ Done(t) => trace[t] # << >>
        /\ (Done(t) /\ response[t].phase \in {"decode", "call", "validate"}) =>
              number_of_max_predictions = atStart[t] - 1
        /\ pc[t] \in {"check", "call", "idle"} =>
              number_of_max_predictions = budget - received
        /\ pc[t] \in {"read", "write"} =>
              number_of_max_predictions = budget - received + 1

ConsumeFirstWitness ==
    /\ Done(1)
    /\ response[1].error = "AssertionError"
    /\ response[1].phase = "validate"
    /\ trace[1] = << "consume", "decode", "bind", "call", "validate" >>
    /\ received = 2
    /\ number_of_max_predictions = PredictionsPerImage - 2

\* C6, as claimed: a refused request leaves the counter as it found it.
RefusedLeavesBudget ==
    \A t \in DOMAIN pc :
        Refused(t) => number_of_max_predictions = atStart[t]

\* C6, amended: a refused request has taken 1 from the counter like any other
\* and has done nothing else: nothing decoded or bound, the model not called,
\* the server still serving.
RefusedCostsOne ==
    \A t \in DOMAIN pc :
        Refused(t) =>
            /\ number_of_max_predictions = atStart[t] - 1
            /\ trace[t] = << "consume" >>
            /\ bound[t] = None
            /\ modelCall[t] = None
            /\ running

RefusedCostsOneWitness ==
    /\ Refused(1)
    /\ atStart[1] = -1
    /\ number_of_max_predictions = -2
    /\ rejected = 2

\* C9: the model is called only with an image bound as a 64x64x3 uint8 array;
\* any other value bound to `image` fails the assertions and the model is not
\* called.
ModelGetsValidImage ==
    \A t \in DOMAIN pc :
        LET valid == [kind |-> "ndarray", shape |-> << 64, 64, 3 >>,
                      dtype |-> [kind |-> "u", byteorder |-> "|", itemsize |-> 1]]
        IN  /\ modelCall[t] # None => bound[t] = valid
            /\ (Done(t) /\ bound[t] # None /\ bound[t] # valid) =>
                  /\ response[t].error = "AssertionError"
                  /\ response[t].phase = "validate"
                  /\ modelCall[t] = None

ModelGetsValidImageWitness ==
    /\ Done(1)
    /\ bound[1].kind = "ndarray"
    /\ bound[1].shape = << 32, 32, 3 >>
    /\ response[1].status = 500
    /\ response[1].error = "AssertionError"
    /\ modelCall[1] = None

\* what thread t's request answered, for C10
Answers(t, body) == response[t].status = 200 /\ response[t].body = body

Fails(t) == response[t].status = 500 /\ response[t].error = "AssertionError"

\* the returned vector has 200 elements and the answer is the index of its
\* first maximum; any other vector of more than one element fails the request
VectorNormalized(t, e) ==
    IF Len(e) = 200
    THEN \E p \in 0..199 :
            /\ Answers(t, Bson(PyDict("prediction" :> PyInt(p))))
            /\ \A j \in 1..200 : e[j] <= e[p + 1]
            /\ \A j \in 1..p : e[j] < e[p + 1]
    ELSE Fails(t)

\* C10, as claimed: a returned vector of more than one element must have 200
\* elements and the prediction is the index of its maximum, anything else
\* returned is itself the prediction; the request succeeds only with a
\* prediction p, 0 <= p < 255, and answers {"prediction": p}.
ScalarItselfIsPrediction ==
    \A t \in DOMAIN pc :
        (Done(t) /\ modelCall[t] # None) =>
            LET out == modelCall[t].returned
            IN  IF IsNdArray(out) /\ Size(out) > 1
                THEN VectorNormalized(t, Elements(out))
                ELSE LET x == IF IsNdArray(out) THEN PyInt(Elements(out)[1])
                              ELSE out
                         inBounds == IF x.kind = "float"
                                     THEN 0 <= x.num /\ x.num < 255 * x.den
                                     ELSE 0 <= x.v /\ x.v < 255
                     IN  IF inBounds
                         THEN Answers(t, Bson(PyDict("prediction" :> x)))
                         ELSE Fails(t)

\* C10, amended: ... anything else returned is the prediction once int() has
\* made an integer of it (a fraction is dropped, towards zero); the request
\* succeeds only with a prediction p, 0 <= p < 255, and answers
\* {"prediction": p}, p an integer.
OutputNormalized ==
    \A t \in DOMAIN pc :
        Done(t) =>
            /\ response[t].status = 200 =>
                  \E p \in 0..254 :
                      Answers(t, Bson(PyDict("prediction" :> PyInt(p))))
            /\ modelCall[t] # None =>
                  LET out == modelCall[t].returned
                  IN  IF IsNdArray(out) /\ Size(out) > 1
                      THEN VectorNormalized(t, Elements(out))
                      ELSE LET x == IF IsNdArray(out)
                                    THEN PyInt(Elements(out)[1]) ELSE out
                               \* the integer between 0 and x that is nearest x
                               whole(p) ==
                                   IF x.kind # "float" THEN p = x.v
                                   ELSE IF x.num >= 0
                                   THEN p * x.den <= x.num
                                        /\ x.num < (p + 1) * x.den
                                   ELSE (p - 1) * x.den < x.num
                                        /\ x.num <= p * x.den
                           IN  IF \E p \in 0..254 : whole(p)
                               THEN \E p \in 0..254 :
                                      /\ whole(p)
                                      /\ Answers(t, Bson(PyDict(
                                             "prediction" :> PyInt(p))))
                               ELSE Fails(t)

OutputNormalizedWitness ==
    /\ Done(1)
    /\ modelCall[1] # None
    /\ modelCall[1].returned = PyFloat(-1, 2)
    /\ response[1].status = 200
    /\ response[1].body = Bson(PyDict("prediction" :> PyInt(0)))

=============================================================================
